---------------------------- MODULE Spec2Model ----------------------------
(***************************************************************************)
(* Verified-boot provisioning scripts of verified-boot/: dm-verity.py,     *)
(* dm-verity-impl-1.py and dm-verity-impl-2.py.                            *)
(*                                                                         *)
(* Text is modelled character by character: a Python str is a sequence of  *)
(* one-character strings, so that substring search, str.replace and re.sub *)
(* behave on the model as they do on the program's text.                   *)
(***************************************************************************)
EXTENDS Integers, Sequences, FiniteSets, TLC

(***************************************************************************)
(* Bounds of the model.                                                    *)
(***************************************************************************)
\* entry texts are concatenations of at most MaxChunks pieces of EntryChunks
MaxChunks == 4
\* the formatter prints at most MaxLines lines
MaxLines == 4
\* loader/entries of the boot partition holds at most MaxEntries files
MaxEntries == 2

(***************************************************************************)
(* Characters and literals of the scripts.                                 *)
(***************************************************************************)
NL == "\n"

RE_root == <<"r","o","o","t","=">>
RE_quiet == <<" ","q","u","i","e","t">>
RE_rw == <<"r","w">>
REPL_ro == <<"r","o">>

(***************************************************************************)
(* Sequence helpers.                                                       *)
(***************************************************************************)
SetMin(S) == CHOOSE x \in S : \A y \in S : x <= y
SetMax(S) == CHOOSE x \in S : \A y \in S : x >= y

\* s has pat as a substring starting at (1-based) position i
IsAt(s, i, pat) ==
    /\ i >= 1
    /\ i + Len(pat) - 1 <= Len(s)
    /\ \A k \in 1..Len(pat) : s[i + k - 1] = pat[k]

RECURSIVE Flatten(_)
Flatten(ss) == IF ss = <<>> THEN <<>> ELSE Head(ss) \o Flatten(Tail(ss))

(***************************************************************************)
(* str.replace(old, new) and re.sub of a literal pattern: every            *)
(* non-overlapping occurrence, leftmost first.                             *)
(***************************************************************************)
RECURSIVE ReplaceFrom(_, _, _, _)
ReplaceFrom(s, old, new, i) ==
    LET occ == {j \in i..Len(s) : IsAt(s, j, old)}
    IN  IF occ = {} THEN SubSeq(s, i, Len(s))
        ELSE LET m == SetMin(occ)
             IN  SubSeq(s, i, m - 1) \o new \o ReplaceFrom(s, old, new, m + Len(old))

str_replace(s, old, new) == ReplaceFrom(s, old, new, 1)

(***************************************************************************)
(* re.sub(r"root=.* quiet", repl, s): "." matches any character but a      *)
(* newline and ".*" is greedy, so a match runs from an occurrence of       *)
(* "root=" to the LAST " quiet" of the same line.                          *)
(***************************************************************************)
\* index of the first newline at or after i, Len(s) + 1 when there is none
LineEnd(s, i) ==
    LET nl == {j \in i..Len(s) : s[j] = NL}
    IN  IF nl = {} THEN Len(s) + 1 ELSE SetMin(nl)

\* start of the " quiet" that ends the match beginning at i, 0 for no match
AnchorAt(s, i) ==
    IF ~IsAt(s, i, RE_root) THEN 0
    ELSE LET from == i + Len(RE_root)
             cand == {j \in from..(LineEnd(s, from) - Len(RE_quiet)) :
                          IsAt(s, j, RE_quiet)}
         IN  IF cand = {} THEN 0 ELSE SetMax(cand)

RECURSIVE SubRootFrom(_, _, _)
SubRootFrom(s, repl, i) ==
    LET occ == {j \in i..Len(s) : AnchorAt(s, j) # 0}
    IN  IF occ = {} THEN SubSeq(s, i, Len(s))
        ELSE LET m == SetMin(occ)
             IN  SubSeq(s, i, m - 1) \o repl
                   \o SubRootFrom(s, repl, AnchorAt(s, m) + Len(RE_quiet))

re_sub_root_quiet(repl, s) == SubRootFrom(s, repl, 1)

re_sub_rw(s) == str_replace(s, RE_rw, REPL_ro)

(***************************************************************************)
(* Per-script configuration.                                               *)
(***************************************************************************)
ORIG == "dm-verity.py"
IMPL1 == "dm-verity-impl-1.py"
IMPL2 == "dm-verity-impl-2.py"
Variants == {ORIG, IMPL1, IMPL2}

data_num(v) == IF v = IMPL1 THEN 3 ELSE 4
hash_num(v) == IF v = IMPL1 THEN 4 ELSE 5
verity_name(v) == IF v = IMPL1 THEN <<"r","o","o","t">> ELSE <<"v","l","o","o","p","1">>

\* str(n) of a partition number
str(n) == <<CASE n = 1 -> "1" [] n = 2 -> "2" [] n = 3 -> "3" [] n = 4 -> "4"
              [] n = 5 -> "5" [] n = 6 -> "6">>

verity_kernel_cmdline(root_hash) ==
    <<"r","o","o","t","=","/","d","e","v","/","m","a","p","p","e","r","/">> \o verity_name(IMPL1)
      \o <<" ","s","y","s","t","e","m","d",".","v","e","r","i","t","y","=","y","e","s"," ","r","o","o","t","h","a","s","h","=">> \o root_hash
      \o <<" ","s","y","s","t","e","m","d",".","v","e","r","i","t","y","_","r","o","o","t","_","d","a","t","a","=","/","d","e","v","/","s","d","a">> \o str(data_num(IMPL1))
      \o <<" ","s","y","s","t","e","m","d",".","v","e","r","i","t","y","_","r","o","o","t","_","h","a","s","h","=","/","d","e","v","/","s","d","a">> \o str(hash_num(IMPL1))
      \o <<" ","r","o","o","t","d","e","l","a","y","=","1","0"," ","q","u","i","e","t">>

\* the two rewrite rules, in the order the script applies them
new_content(content, root_hash) ==
    re_sub_rw(re_sub_root_quiet(verity_kernel_cmdline(root_hash), content))

(***************************************************************************)
(* Python list indexing, res[i] with i counted from 0: a negative index    *)
(* counts from the end, and an index outside -len .. len-1 raises          *)
(* IndexError.                                                             *)
(***************************************************************************)
PyIndexOk(s, i) == -Len(s) <= i /\ i < Len(s)
PyIndex(s, i) == IF i >= 0 THEN s[i + 1] ELSE s[Len(s) + i + 1]

(***************************************************************************)
(* Extraction of the salt and the root hash from the formatter's output    *)
(* lines (dm-verity.py 64-73, impl-1 60-68, impl-2 84-91).                 *)
(***************************************************************************)
CommandSuccessful == <<"C","o","m","m","a","n","d"," ","s","u","c","c","e","s","s","f","u","l",".">>
SaltPrefix == <<"S","a","l","t",":"," "," "," "," "," "," "," "," "," "," "," "," ","\t">>
RootHashPrefix == <<"R","o","o","t"," ","h","a","s","h",":"," "," "," "," "," "," ","\t">>

salt_str(lines) == PyIndex(lines, Len(lines) - 3)
root_hash_str(lines) == PyIndex(lines, Len(lines) - 2)
salt_of(lines) == str_replace(salt_str(lines), SaltPrefix, <<>>)
root_hash_of(lines) == str_replace(root_hash_str(lines), RootHashPrefix, <<>>)

\* IndexError on res[len(res) - 1]: the output has no line
NoLastLine(lines) == ~PyIndexOk(lines, Len(lines) - 1)
\* dm-verity.py 64-65: the last line must be the formatter's success line
FormatRefused(v, lines) ==
    /\ v = ORIG
    /\ ~NoLastLine(lines)
    /\ PyIndex(lines, Len(lines) - 1) # CommandSuccessful
\* IndexError on res[len(res) - 3] or res[len(res) - 2]
NoBindingLines(lines) ==
    ~PyIndexOk(lines, Len(lines) - 3) \/ ~PyIndexOk(lines, Len(lines) - 2)
ExtractRaises(v, lines) ==
    NoLastLine(lines) \/ FormatRefused(v, lines) \/ NoBindingLines(lines)

Line(msg, val) == [msg |-> msg, val |-> val]

\* what the extraction prints, up to the statement that raises
ExtractPrints(v, lines) ==
    (IF v # ORIG /\ ~NoLastLine(lines)
        THEN <<Line("", PyIndex(lines, Len(lines) - 1))>> ELSE <<>>)
    \o (IF ExtractRaises(v, lines) THEN <<>>
        ELSE <<Line("", salt_str(lines)), Line("", root_hash_str(lines))>>
             \o (IF v = IMPL2 THEN <<>>
                 ELSE <<Line("", salt_of(lines)), Line("", root_hash_of(lines))>>))

(***************************************************************************)
(* The straight-line program of each script, as the labels of its steps.   *)
(***************************************************************************)
CreateDataFiles ==
    <<"mount_data", "touch_file1", "write_file1", "touch_file2", "write_file2",
      "umount_data">>

\* a faulty ordering of the data-partition steps: the format command runs
\* while the data partition is still mounted on mnt
ProgramFormatWhileMounted(v) ==
    LET early == <<"mount_data", "touch_file1", "write_file1", "touch_file2",
                   "write_file2", "format", "umount_data", "extract">>
    IN  CASE v = ORIG ->
               <<"attach", "rm_mnt", "mkdir_mnt">> \o early
               \o <<"mount_store", "touch_hash", "write_hash", "touch_salt",
                    "write_salt", "umount_store", "rm_mnt_end", "success">>
          [] v = IMPL1 ->
               <<"attach", "rm_mnt", "mkdir_mnt", "format", "extract",
                 "mount_boot", "listdir", "entry", "umount_boot", "rm_mnt_end",
                 "verify", "success">>
          [] v = IMPL2 ->
               <<"attach", "rm_mnt", "mkdir_mnt">> \o early
               \o <<"mount_store", "touch_hash", "write_hash", "touch_salt",
                    "write_salt", "touch_vcreate", "write_vcreate",
                    "umount_store", "verify", "success">>

Program(v) ==
    CASE v = ORIG ->
           <<"attach", "rm_mnt", "mkdir_mnt">> \o CreateDataFiles
           \o <<"format", "extract", "mount_store", "touch_hash", "write_hash",
                "touch_salt", "write_salt", "umount_store", "rm_mnt_end",
                "success">>
      [] v = IMPL1 ->
           <<"attach", "rm_mnt", "mkdir_mnt", "format", "extract", "mount_boot",
             "listdir", "entry", "umount_boot", "rm_mnt_end", "verify",
             "success">>
      [] v = IMPL2 ->
           <<"attach", "rm_mnt", "mkdir_mnt">> \o CreateDataFiles
           \o <<"format", "extract", "mount_store", "touch_hash", "write_hash",
                "touch_salt", "write_salt", "touch_vcreate", "write_vcreate",
                "umount_store", "verify", "success">>

\* the label that follows label l in the script
After(v, l) ==
    LET p == Program(v)
        i == CHOOSE j \in 1..Len(p) : p[j] = l
    IN  p[i + 1]

(***************************************************************************)
(* Files.                                                                  *)
(***************************************************************************)
Absent == [exists |-> FALSE, text |-> <<>>]
Empty == [exists |-> TRUE, text |-> <<>>]
File(text) == [exists |-> TRUE, text |-> text]

DataFiles == {"file1.sh", "file2.sh"}
StoreFiles == {"hash.txt", "salt.txt", "vcreate.sh"}

\* the partition a mount_* step mounts
PartitionOf(l) ==
    CASE l = "mount_data" -> "data"
      [] l = "mount_boot" -> "boot"
      [] l = "mount_store" -> "store"

\* the file a touch_* or write_* step names
FileOf(l) ==
    CASE l \in {"touch_file1", "write_file1"} -> "file1.sh"
      [] l \in {"touch_file2", "write_file2"} -> "file2.sh"
      [] l \in {"touch_hash", "write_hash"} -> "hash.txt"
      [] l \in {"touch_salt", "write_salt"} -> "salt.txt"
      [] l \in {"touch_vcreate", "write_vcreate"} -> "vcreate.sh"

\* impl-2 116-118: the three lines of the reconstruction script
vcreate_text(hash) ==
    <<"v","e","r","i","t","y","s","e","t","u","p"," ","-","-","v","e","r","b","o","s","e"," ","-","-","d","a","t","a","-","b","l","o","c","k","-","s","i","z","e","=","1","0","2","4"," ","-","-","h","a","s","h","-","b","l","o","c","k","-","s","i","z","e","=","1","0","2","4"," ","c","r","e","a","t","e"," ">>
      \o verity_name(IMPL2) \o <<" ","/","d","e","v","/","s","d","a">> \o str(data_num(IMPL2))
      \o <<" ","/","d","e","v","/","s","d","a">> \o str(hash_num(IMPL2)) \o <<" ">> \o hash \o <<"\n">>
      \o <<"m","k","d","i","r"," ","/","m","n","t","/","v","l","o","o","p","\n">>
      \o <<"m","o","u","n","t"," ","/","d","e","v","/","m","a","p","p","e","r","/">> \o verity_name(IMPL2) \o <<" ","/","m","n","t","/","v","l","o","o","p">>

\* a faulty write: the salt and the root hash change places
TextOfSwapped(l, s, h) ==
    CASE l = "write_file1" -> <<"e","c","h","o"," ","T","e","s","t","i","n","g"," ","d","m","-","v","e","r","i","t","y"," ","d","a","t","a","1",".",".",".">>
      [] l = "write_file2" -> <<"e","c","h","o"," ","T","e","s","t","i","n","g"," ","d","m","-","v","e","r","i","t","y"," ","d","a","t","a","2",".",".",".">>
      [] l = "write_hash" -> s
      [] l = "write_salt" -> h
      [] l = "write_vcreate" -> vcreate_text(h)

\* what a write_* step writes
TextOf(l, s, h) ==
    CASE l = "write_file1" -> <<"e","c","h","o"," ","T","e","s","t","i","n","g"," ","d","m","-","v","e","r","i","t","y"," ","d","a","t","a","1",".",".",".">>
      [] l = "write_file2" -> <<"e","c","h","o"," ","T","e","s","t","i","n","g"," ","d","m","-","v","e","r","i","t","y"," ","d","a","t","a","2",".",".",".">>
      [] l = "write_hash" -> h
      [] l = "write_salt" -> s
      [] l = "write_vcreate" -> vcreate_text(h)

\* the line a step prints before its command
Announce(v, l) ==
    CASE l = "attach" /\ v = ORIG -> <<Line("Starting losetup -f -P --show", <<>>)>>
      [] l = "attach" /\ v = IMPL1 -> <<Line("Executing: losetup -f -P --show", <<>>)>>
      [] l = "mount_data" -> <<Line("Creating data files in", <<>>)>>
      [] l = "format" /\ v = ORIG -> <<Line("Starting veritysetup format", <<>>)>>
      [] l = "format" /\ v # ORIG -> <<Line("Executing: veritysetup format", <<>>)>>
      [] l = "touch_hash" -> <<Line("Writing the root_hash to hash.txt in", <<>>)>>
      [] l = "touch_salt" -> <<Line("Writing the salt to salt.txt in", <<>>)>>
      [] l = "touch_vcreate" ->
           <<Line("Writing veritysetup create command to vcreate.sh in", <<>>)>>
      [] OTHER -> <<>>

IOErrorLine == Line("I/O error", <<>>)

\* fnmatch.fnmatch(fname, 'Clear-*')
fnmatch_Clear(fname) == IsAt(fname, 1, <<"C","l","e","a","r","-">>)

(***************************************************************************)
(* State.                                                                  *)
(***************************************************************************)
VARIABLES
    variant,       \* which script runs
    pc,            \* the step about to run; "done" (exit 0) or "raised"
    stage,         \* the step that raised, "" while none has
    attached,      \* loop devices attached for the image and not detached
    mnt_dir,       \* the directory mnt exists
    mnt_stack,     \* partitions mounted on mnt, the latest last
    data_fs,       \* files of the data partition
    store_fs,      \* files of the metadata store partition
    entries,       \* files of loader/entries on the boot partition
    format_runs,   \* how often veritysetup format was invoked
    res,           \* output lines of the last command read (res / cmd2)
    salt,          \* the script's variable salt
    root_hash,     \* the script's variable root_hash
    k,             \* impl-1: position of the loop over os.listdir
    content,       \* impl-1: the loop's variable content, unbound at first
    new_text,      \* impl-1: the loop's variable new_content
    verify_result, \* "none", "passed", "failed"
    stdout,        \* what the script printed
    t_input,       \* transform alone: the entry text before the first pass
    t_hash,        \* transform alone: the root hash both passes use
    t_text,        \* transform alone: the entry text now
    t_once,        \* transform alone: the entry text after the first pass
    t_passes       \* transform alone: how many passes were applied

runVars == <<variant, pc, stage, attached, mnt_dir, mnt_stack, data_fs, store_fs,
             entries, format_runs, res, salt, root_hash, k, content, new_text,
             verify_result, stdout>>
patchVars == <<t_input, t_hash, t_text, t_once, t_passes>>
vars == <<runVars, patchVars>>

Terminated == pc \in {"done", "raised"}

(***************************************************************************)
(* The environment: what the external tools may answer and what the disk   *)
(* image holds.                                                            *)
(***************************************************************************)
HashAlgLine == <<"H","a","s","h"," ","a","l","g","o","r","i","t","h","m",":"," "," ","\t","s","h","a","2","5","6">>
SaltLine == <<"S","a","l","t",":"," "," "," "," "," "," "," "," "," "," "," "," ","\t","a","b","1","2">>
RootHashLine == <<"R","o","o","t"," ","h","a","s","h",":"," "," "," "," "," "," ","\t","d","e","a","d","b","e","e","f">>
\* the root hash of the tree the formatter built
TrueRootHash == <<"d","e","a","d","b","e","e","f">>

FmtLines == {HashAlgLine, SaltLine, RootHashLine, CommandSuccessful}
FormatterOutputs == UNION {[1..n -> FmtLines] : n \in 0..MaxLines}

\* veritysetup --verbose format as it answers, and three damaged answers
SampleOutputs ==
    { <<HashAlgLine, SaltLine, RootHashLine, CommandSuccessful>>,
      <<HashAlgLine, RootHashLine, CommandSuccessful>>,
      <<SaltLine, RootHashLine>>,
      <<CommandSuccessful>> }

Entry(name, text) == [name |-> name, text |-> text, writes |-> 0]

SampleEntries ==
    { Entry(<<"C","l","e","a","r","-","l","i","n","u","x","-","n","a","t","i","v","e",".","c","o","n","f">>, <<"o","p","t","i","o","n","s"," ","r","o","o","t","=","/","d","e","v","/","s","d","a","3"," ","r","w"," ","q","u","i","e","t","\n">>),
      Entry(<<"C","l","e","a","r","-","l","i","n","u","x","-","l","t","s",".","c","o","n","f">>, <<"o","p","t","i","o","n","s"," ","r","o","o","t","=","/","d","e","v","/","s","d","a","3"," ","r","w","\n">>),
      Entry(<<"d","e","f","a","u","l","t",".","c","o","n","f">>, <<"d","e","f","a","u","l","t"," ","C","l","e","a","r","-","l","i","n","u","x","-","n","a","t","i","v","e","\n">>) }

\* os.listdir of loader/entries: distinct files, in any order
EntryLists ==
    {es \in UNION {[1..n -> SampleEntries] : n \in 0..MaxEntries} :
        \A i, j \in 1..Len(es) : i # j => es[i].name # es[j].name}

\* lines the attach command may print: one per loop device (losetup), one
\* per partition mapping (kpartx)
AttachLines(v) == IF v = IMPL2 THEN {0, 5, 6} ELSE 0..2
store_num(v) == 6
\* the script gets past its reading of the attach output
AttachAccepted(v, n) ==
    CASE v = ORIG -> n = 1
      [] v = IMPL1 -> n >= 1
      [] v = IMPL2 -> n >= store_num(v)
DevicesAttached(v, n) == IF v = IMPL2 THEN (IF n > 0 THEN 1 ELSE 0) ELSE n

Unbound == [bound |-> FALSE, text |-> <<>>]
Bound(text) == [bound |-> TRUE, text |-> text]

IdlePatch ==
    /\ t_input = <<>>
    /\ t_hash = <<>>
    /\ t_text = <<>>
    /\ t_once = <<>>
    /\ t_passes = 0

Init ==
    /\ variant \in Variants
    /\ pc = "attach"
    /\ stage = ""
    /\ attached = 0
    /\ mnt_dir \in BOOLEAN
    /\ mnt_stack = <<>>
    /\ data_fs = [f \in DataFiles |-> Absent]
    /\ store_fs = [f \in StoreFiles |-> Absent]
    /\ entries \in (IF variant = IMPL1 THEN EntryLists ELSE {<<>>})
    /\ format_runs = 0
    /\ res = <<>>
    /\ salt = <<>>
    /\ root_hash = <<>>
    /\ k = 0
    /\ content = Unbound
    /\ new_text = <<>>
    /\ verify_result = "none"
    /\ stdout = <<>>
    /\ IdlePatch

(***************************************************************************)
(* Steps.  A command run with subprocess.check_output raises when it       *)
(* fails, and nothing catches it: the script ends there.                   *)
(***************************************************************************)
Raise == pc' = "raised" /\ stage' = pc
Advance == pc' = After(variant, pc) /\ stage' = stage

\* losetup -f -P --show (dm-verity.py 16-25, impl-1 12-18) or
\* kpartx -a -v (impl-2 17-29), and the script's reading of the output
Attach ==
    /\ pc = "attach"
    /\ \E ok \in BOOLEAN, n \in AttachLines(variant) :
         /\ stdout' = stdout \o Announce(variant, pc)
                \o (IF ok /\ variant = IMPL1 /\ n >= 1
                       THEN <<Line("dev", <<>>)>> ELSE <<>>)
         /\ attached' = IF ok THEN DevicesAttached(variant, n) ELSE attached
         /\ IF ok /\ AttachAccepted(variant, n) THEN Advance ELSE Raise
    /\ UNCHANGED <<variant, mnt_dir, mnt_stack, data_fs, store_fs, entries,
                   format_runs, res, salt, root_hash, k, content, new_text,
                   verify_result, patchVars>>

\* rm -rf mnt
RmMnt ==
    /\ pc \in {"rm_mnt", "rm_mnt_end"}
    /\ \E ok \in BOOLEAN :
         IF ok THEN mnt_dir' = FALSE /\ Advance
         ELSE mnt_dir' = mnt_dir /\ Raise
    /\ UNCHANGED <<variant, attached, mnt_stack, data_fs, store_fs, entries,
                   format_runs, res, salt, root_hash, k, content, new_text,
                   verify_result, stdout, patchVars>>

\* mkdir mnt
MkdirMnt ==
    /\ pc = "mkdir_mnt"
    /\ \E ok \in BOOLEAN :
         IF ok THEN mnt_dir' = TRUE /\ Advance
         ELSE mnt_dir' = mnt_dir /\ Raise
    /\ UNCHANGED <<variant, attached, mnt_stack, data_fs, store_fs, entries,
                   format_runs, res, salt, root_hash, k, content, new_text,
                   verify_result, stdout, patchVars>>

\* mount <partition> mnt
Mount ==
    /\ pc \in {"mount_data", "mount_boot", "mount_store"}
    /\ stdout' = stdout \o Announce(variant, pc)
    /\ \E ok \in BOOLEAN :
         IF ok THEN mnt_stack' = Append(mnt_stack, PartitionOf(pc)) /\ Advance
         ELSE mnt_stack' = mnt_stack /\ Raise
    /\ UNCHANGED <<variant, attached, mnt_dir, data_fs, store_fs, entries,
                   format_runs, res, salt, root_hash, k, content, new_text,
                   verify_result, patchVars>>

\* umount mnt
Umount ==
    /\ pc \in {"umount_data", "umount_boot", "umount_store"}
    /\ \E ok \in BOOLEAN :
         IF ok THEN mnt_stack' = SubSeq(mnt_stack, 1, Len(mnt_stack) - 1) /\ Advance
         ELSE mnt_stack' = mnt_stack /\ Raise
    /\ UNCHANGED <<variant, attached, mnt_dir, data_fs, store_fs, entries,
                   format_runs, res, salt, root_hash, k, content, new_text,
                   verify_result, stdout, patchVars>>

\* touch mnt/<file>
Touch ==
    /\ pc \in {"touch_file1", "touch_file2", "touch_hash", "touch_salt",
               "touch_vcreate"}
    /\ stdout' = stdout \o Announce(variant, pc)
    /\ \E ok \in BOOLEAN :
         LET f == FileOf(pc)
             touched(fs) == IF fs[f].exists THEN fs ELSE [fs EXCEPT ![f] = Empty]
         IN  IF ~ok THEN Raise /\ UNCHANGED <<data_fs, store_fs>>
             ELSE /\ Advance
                  /\ data_fs' = IF f \in DataFiles THEN touched(data_fs) ELSE data_fs
                  /\ store_fs' = IF f \in StoreFiles THEN touched(store_fs) ELSE store_fs
    /\ UNCHANGED <<variant, attached, mnt_dir, mnt_stack, entries, format_runs,
                   res, salt, root_hash, k, content, new_text, verify_result,
                   patchVars>>

\* try: open(file, 'w'); write; close / except IOError: print("I/O error").
\* open 'w' truncates; the error is printed and the script goes on.
WriteFile ==
    /\ pc \in {"write_file1", "write_file2", "write_hash", "write_salt",
               "write_vcreate"}
    /\ \E io \in {"open fails", "write fails", "written"} :
         LET f == FileOf(pc)
             now == CASE io = "open fails" -> IF f \in DataFiles THEN data_fs[f]
                                              ELSE store_fs[f]
                      [] io = "write fails" -> Empty
                      [] io = "written" -> File(TextOf(pc, salt, root_hash))
         IN  /\ data_fs' = IF f \in DataFiles THEN [data_fs EXCEPT ![f] = now]
                           ELSE data_fs
             /\ store_fs' = IF f \in StoreFiles THEN [store_fs EXCEPT ![f] = now]
                            ELSE store_fs
             /\ stdout' = IF io = "written" THEN stdout
                          ELSE Append(stdout, IOErrorLine)
    /\ Advance
    /\ UNCHANGED <<variant, attached, mnt_dir, mnt_stack, entries, format_runs,
                   res, salt, root_hash, k, content, new_text, verify_result,
                   patchVars>>

\* veritysetup --verbose format <data> <hash>, its output split into lines
Format ==
    /\ pc = "format"
    /\ stdout' = stdout \o Announce(variant, pc)
    /\ format_runs' = format_runs + 1
    /\ \/ res' \in SampleOutputs /\ Advance
       \/ res' = res /\ Raise
    /\ UNCHANGED <<variant, attached, mnt_dir, mnt_stack, data_fs, store_fs,
                   entries, salt, root_hash, k, content, new_text,
                   verify_result, patchVars>>

\* dm-verity.py 64-73, impl-1 60-68, impl-2 84-91
Extract ==
    /\ pc = "extract"
    /\ stdout' = stdout \o ExtractPrints(variant, res)
    /\ IF ExtractRaises(variant, res)
          THEN Raise /\ UNCHANGED <<salt, root_hash>>
          ELSE /\ salt' = salt_of(res)
               /\ root_hash' = root_hash_of(res)
               /\ Advance
    /\ UNCHANGED <<variant, attached, mnt_dir, mnt_stack, data_fs, store_fs,
                   entries, format_runs, res, k, content, new_text,
                   verify_result, patchVars>>

(***************************************************************************)
(* impl-1 72-92: the loop over the boot partition's loader entries.        *)
(***************************************************************************)
loopFrame == <<variant, attached, mnt_dir, mnt_stack, data_fs, store_fs,
               format_runs, res, salt, root_hash, verify_result, patchVars>>

\* os.listdir('mnt/loader/entries/') raises when the directory is missing
ListDir ==
    /\ pc = "listdir"
    /\ \E ok \in BOOLEAN :
         IF ok THEN k' = 1 /\ Advance ELSE k' = k /\ Raise
    /\ UNCHANGED <<loopFrame, entries, content, new_text, stdout>>

\* for fname in ...: if fnmatch.fnmatch(fname, 'Clear-*')
EntrySelect ==
    /\ pc = "entry"
    /\ stage' = stage
    /\ IF k > Len(entries) THEN pc' = After(variant, pc) /\ k' = k
       ELSE IF fnmatch_Clear(entries[k].name) THEN pc' = "entry_read" /\ k' = k
       ELSE pc' = pc /\ k' = k + 1
    /\ UNCHANGED <<loopFrame, entries, content, new_text, stdout>>

\* 75-81: content = open(path, 'r').read(), IOError printed and passed over
EntryRead ==
    /\ pc = "entry_read"
    /\ \E ok \in BOOLEAN :
         IF ok THEN /\ content' = Bound(entries[k].text)
                    /\ stdout' = Append(stdout, Line("", entries[k].text))
         ELSE /\ content' = content
              /\ stdout' = Append(stdout, IOErrorLine)
    /\ pc' = "entry_sub"
    /\ UNCHANGED <<loopFrame, stage, entries, k, new_text>>

\* 83-85: the two re.sub rules; NameError when content was never bound
EntrySub ==
    /\ pc = "entry_sub"
    /\ IF content.bound
          THEN /\ new_text' = new_content(content.text, root_hash)
               /\ stdout' = Append(stdout, Line("", new_text'))
               /\ pc' = "entry_open"
               /\ stage' = stage
          ELSE Raise /\ UNCHANGED <<new_text, stdout>>
    /\ UNCHANGED <<loopFrame, entries, k, content>>

\* 88: open(path, 'w') truncates the entry, or raises IOError (printed)
EntryOpen ==
    /\ pc = "entry_open"
    /\ \E ok \in BOOLEAN :
         IF ok THEN /\ entries' = [entries EXCEPT ![k].text = <<>>]
                    /\ pc' = "entry_write"
                    /\ UNCHANGED <<k, stdout>>
         ELSE /\ stdout' = Append(stdout, IOErrorLine)
              /\ pc' = "entry"
              /\ k' = k + 1
              /\ UNCHANGED entries
    /\ UNCHANGED <<loopFrame, stage, content, new_text>>

\* 89-92: write and close, or IOError (printed) with the entry left truncated
EntryWrite ==
    /\ pc = "entry_write"
    /\ \E ok \in BOOLEAN :
         IF ok THEN /\ entries' = [entries EXCEPT ![k].text = new_text,
                                                  ![k].writes = @ + 1]
                    /\ stdout' = stdout
         ELSE /\ stdout' = Append(stdout, IOErrorLine)
              /\ UNCHANGED entries
    /\ pc' = "entry"
    /\ k' = k + 1
    /\ UNCHANGED <<loopFrame, stage, content, new_text>>

(***************************************************************************)
(* impl-1 129-135, impl-2 125-131: veritysetup --verbose verify with the   *)
(* extracted root hash.  The tool passes only the hash of the tree it      *)
(* built.                                                                  *)
(***************************************************************************)
Verify ==
    /\ pc = "verify"
    /\ \E ok \in {b \in BOOLEAN : b => root_hash = TrueRootHash}, n \in 0..1 :
         /\ verify_result' = IF ok THEN "passed" ELSE "failed"
         /\ res' = IF ~ok THEN res
                   ELSE IF n = 0 THEN <<>> ELSE <<CommandSuccessful>>
         /\ stdout' = stdout
                \o <<Line("Executing: veritysetup --verbose verify", root_hash)>>
                \o (IF ok /\ n = 1 THEN <<Line("", CommandSuccessful)>> ELSE <<>>)
         \* print(res[len(res) - 1]) raises IndexError on an empty output
         /\ IF ok /\ n = 1 THEN Advance ELSE Raise
    /\ UNCHANGED <<variant, attached, mnt_dir, mnt_stack, data_fs, store_fs,
                   entries, format_runs, salt, root_hash, k, content, new_text,
                   patchVars>>

\* the last statement: print("Completed successfully!") / print("Done!")
Success ==
    /\ pc = "success"
    /\ pc' = "done"
    /\ stage' = stage
    /\ stdout' = Append(stdout, Line(IF variant = ORIG THEN "Completed successfully!"
                                      ELSE "Done!", <<>>))
    /\ UNCHANGED <<variant, attached, mnt_dir, mnt_stack, data_fs, store_fs,
                   entries, format_runs, res, salt, root_hash, k, content,
                   new_text, verify_result, patchVars>>

Next ==
    \/ Attach
    \/ RmMnt
    \/ MkdirMnt
    \/ Mount
    \/ Touch
    \/ WriteFile
    \/ Umount
    \/ Format
    \/ Extract
    \/ ListDir
    \/ EntrySelect
    \/ EntryRead
    \/ EntrySub
    \/ EntryOpen
    \/ EntryWrite
    \/ Verify
    \/ Success

Spec == Init /\ [][Next]_vars

(***************************************************************************)
(* The extraction on its own: the script stands right after the format     *)
(* command, which printed any sequence of at most MaxLines lines.          *)
(***************************************************************************)
InitExtract ==
    /\ variant \in Variants
    /\ pc = "extract"
    /\ stage = ""
    /\ attached = 1
    /\ mnt_dir = TRUE
    /\ mnt_stack = <<>>
    /\ data_fs = [f \in DataFiles |->
                    IF variant = IMPL1 THEN Absent
                    ELSE File(TextOf(IF f = "file1.sh" THEN "write_file1"
                                     ELSE "write_file2", <<>>, <<>>))]
    /\ store_fs = [f \in StoreFiles |-> Absent]
    /\ entries = <<>>
    /\ format_runs = 1
    /\ res \in FormatterOutputs
    /\ salt = <<>>
    /\ root_hash = <<>>
    /\ k = 0
    /\ content = Unbound
    /\ new_text = <<>>
    /\ verify_result = "none"
    /\ stdout = Announce(variant, "attach")
                  \o (IF variant = IMPL1 THEN <<Line("dev", <<>>)>>
                      ELSE Announce(variant, "mount_data"))
                  \o Announce(variant, "format")
    /\ IdlePatch

NextExtract == Extract

SpecExtract == InitExtract /\ [][NextExtract]_vars

(***************************************************************************)
(* The boot-entry transform on its own: entry texts built from the pieces  *)
(* of a loader entry, patched once and patched again (a second             *)
(* provisioning run over the same boot partition).                         *)
(***************************************************************************)
EntryChunks ==
    { <<"\n","o","p","t","i","o","n","s">>, <<" ","r","o","o","t","=","/","d","e","v","/","s","d","a","3">>, <<" ","r","o","o","t","f","s","t","y","p","e","=","e","x","t","4">>, <<" ","r","w">>,
      <<" ","q","u","i","e","t">>, <<" ","l","a","b","e","l","=","r","w","d","a","t","a">>, <<" ","r","w","o","t","=","/","d","e","v","/","s","d","a","3">>, <<"\n">> }

EntryTexts ==
    {Flatten(cs) : cs \in UNION {[1..n -> EntryChunks] : n \in 0..MaxChunks}}

SampleHashes == { <<"d","e","a","d","b","e","e","f">> }

\* no script is running
IdleRun ==
    /\ variant = IMPL1
    /\ pc = "attach"
    /\ stage = ""
    /\ attached = 0
    /\ mnt_dir = FALSE
    /\ mnt_stack = <<>>
    /\ data_fs = [f \in DataFiles |-> Absent]
    /\ store_fs = [f \in StoreFiles |-> Absent]
    /\ entries = <<>>
    /\ format_runs = 0
    /\ res = <<>>
    /\ salt = <<>>
    /\ root_hash = <<>>
    /\ k = 0
    /\ content = Unbound
    /\ new_text = <<>>
    /\ verify_result = "none"
    /\ stdout = <<>>

InitPatch ==
    /\ IdleRun
    /\ t_input \in EntryTexts
    /\ t_hash \in SampleHashes
    /\ t_text = t_input
    /\ t_once = <<>>
    /\ t_passes = 0

\* dm-verity-impl-1.py, lines 83-84, on the text of one entry
ApplyTransform ==
    /\ t_passes < 2
    /\ t_text' = new_content(t_text, t_hash)
    /\ t_once' = IF t_passes = 0 THEN t_text' ELSE t_once
    /\ t_passes' = t_passes + 1
    /\ UNCHANGED <<t_input, t_hash, runVars>>

NextPatch == ApplyTransform

SpecPatch == InitPatch /\ [][NextPatch]_vars

(***************************************************************************)
(* Properties.                                                             *)
(***************************************************************************)
Whitespace == {" ", "\t", "\n", "\r"}
Contains(s, pat) == \E i \in 1..Len(s) : IsAt(s, i, pat)

(***************************************************************************)
(* Tokens of a text: its maximal runs of non-whitespace characters.        *)
(***************************************************************************)
TokenStarts(s) ==
    {i \in 1..Len(s) : s[i] \notin Whitespace /\ (i = 1 \/ s[i - 1] \in Whitespace)}
TokenEnd(s, i) ==
    LET ws == {j \in i..Len(s) : s[j] \in Whitespace}
    IN  IF ws = {} THEN Len(s) ELSE SetMin(ws) - 1
TokenSeq(s) ==
    LET starts == TokenStarts(s)
        nth[n \in 1..Cardinality(starts)] ==
            IF n = 1 THEN SetMin(starts)
            ELSE SetMin({i \in starts : i > nth[n - 1]})
    IN  [n \in 1..Cardinality(starts) |-> SubSeq(s, nth[n], TokenEnd(s, nth[n]))]
Tokens(s) == {SubSeq(s, i, TokenEnd(s, i)) : i \in TokenStarts(s)}

HexDigits ==
    {"0", "1", "2", "3", "4", "5", "6", "7", "8", "9",
     "a", "b", "c", "d", "e", "f", "A", "B", "C", "D", "E", "F"}
\* a non-empty, even-length string of hex digits
IsHexString(s) ==
    /\ Len(s) > 0
    /\ Len(s) % 2 = 0
    /\ \A i \in 1..Len(s) : s[i] \in HexDigits

\* an entry was written back with this run's root hash in its command line
EntryHoldsBinding(e) ==
    e.writes > 0 /\ Contains(e.text, <<"r","o","o","t","h","a","s","h","=">> \o root_hash)
\* a metadata artifact was written with this run's binding
ArtifactHoldsBinding(f) ==
    CASE f = "hash.txt" -> store_fs[f] = File(root_hash) /\ root_hash # <<>>
      [] f = "salt.txt" -> store_fs[f] = File(salt) /\ salt # <<>>
      [] f = "vcreate.sh" -> store_fs[f] = File(vcreate_text(root_hash))
BindingWritten ==
    \/ \E i \in 1..Len(entries) : EntryHoldsBinding(entries[i])
    \/ \E f \in StoreFiles : ArtifactHoldsBinding(f)

\* C1: a run that reports success (its last print, exit 0) ran the verify
\* pass in that run and the verify pass succeeded.
C1_SuccessOnlyAfterVerify == pc = "done" => verify_result = "passed"

\* C2: when the verify step failed, no boot entry carries the root hash of
\* the binding and no metadata artifact holds it.
C2_NothingWrittenUnverified == verify_result = "failed" => ~BindingWritten

\* C3: when the run has ended, by its last statement or by an exception at
\* any step, no partition is mounted on mnt.
C3_NothingMountedAtExit == Terminated => mnt_stack = <<>>

\* C4: when a run whose attach step succeeded has ended, in success or in
\* failure at a later step, the device the attach step attached has been
\* detached.
C4_DetachedAtExit == (Terminated /\ stage # "attach") => attached = 0

\* C5: applying the transform a second time, with the same root hash, to a
\* patched entry text leaves the text as the first application made it.
C5_Idempotent == t_passes = 2 => t_text = t_once

\* the tokens the transform is meant to rewrite: the root= device token and
\* the read-write flag
IsRootToken(tok) == IsAt(tok, 1, RE_root)
IsIntendedToken(tok) == IsRootToken(tok) \/ tok = RE_rw

\* C6: every whitespace-delimited token of the entry other than the root=
\* device token and the rw flag is still a token of the patched text.
\* (Stated for the tokens the rw rule cannot reach, those without "rw" in
\* them: what that rule does to the others is C7's subject.)
C6_OtherTokensKept ==
    t_passes = 1 =>
        \A tok \in Tokens(t_input) :
            (~IsIntendedToken(tok) /\ ~Contains(tok, RE_rw)) => tok \in Tokens(t_text)

\* C7: the rw -> ro rule rewrites only tokens equal to rw: a token of the
\* text it is applied to that merely contains "rw" is a token of the result.
C7_DowngradeOnlyRwToken ==
    t_passes = 1 =>
        LET mid == re_sub_root_quiet(verity_kernel_cmdline(t_hash), t_input)
        IN  \A tok \in Tokens(mid) :
                (tok # RE_rw /\ Contains(tok, RE_rw)) => tok \in Tokens(t_text)

\* the text has a root= token followed by the tokens rw and quiet, as in
\* "options root=/dev/sda3 rw quiet"
HasRwBeforeQuiet(s) ==
    \E p \in TokenStarts(s) :
        LET q == TokenEnd(s, p) + 1
        IN  /\ IsAt(s, p, RE_root)
            /\ IsAt(s, q, <<" ","r","w"," ","q","u","i","e","t">>)
            /\ (q + 9 > Len(s) \/ s[q + 9] \in Whitespace)
\* the token ro stands immediately before the token quiet
HasRoBeforeQuiet(s) ==
    \E i \in 1..(Len(TokenSeq(s)) - 1) :
        TokenSeq(s)[i] = REPL_ro /\ TokenSeq(s)[i + 1] = <<"q","u","i","e","t">>

\* C8: an options line with rw between the root device and quiet is patched
\* to a line with the token ro immediately before quiet and no token rw.
C8_RwDowngradedNotDropped ==
    (t_passes = 1 /\ HasRwBeforeQuiet(t_input)) =>
        HasRoBeforeQuiet(t_text) /\ RE_rw \notin Tokens(t_text)

\* the value of a "key: value" line: what follows the key, without the
\* whitespace around it
RECURSIVE StripLeft(_)
StripLeft(s) ==
    IF s # <<>> /\ Head(s) \in Whitespace THEN StripLeft(Tail(s)) ELSE s
KeyLines(lines, key) == {i \in 1..Len(lines) : IsAt(lines[i], 1, key)}
ValueOf(line, key) == StripLeft(SubSeq(line, Len(key) + 1, Len(line)))
SaltKey == <<"S","a","l","t",":">>
RootHashKey == <<"R","o","o","t"," ","h","a","s","h",":">>

\* C9: when the formatter's output holds one Salt line and one Root hash
\* line, on whatever lines, the extraction yields the value of the Salt
\* line as salt and the value of the Root hash line as root hash.
C9_ExtractByKey ==
    ( /\ pc # "extract"
      /\ Cardinality(KeyLines(res, SaltKey)) = 1
      /\ Cardinality(KeyLines(res, RootHashKey)) = 1 ) =>
        /\ pc # "raised"
        /\ \A i \in KeyLines(res, SaltKey) : salt = ValueOf(res[i], SaltKey)
        /\ \A i \in KeyLines(res, RootHashKey) :
               root_hash = ValueOf(res[i], RootHashKey)

\* the run got past the format stage: the formatter ran and the extraction
\* did not end the run
PastFormatStage ==
    /\ format_runs > 0
    /\ pc \notin {"format", "extract"}
    /\ ~(pc = "raised" /\ stage \in {"format", "extract"})

\* C10: a run gets past the format stage only with a salt and a root hash
\* that are non-empty even-length hex strings, so no later step (boot entry
\* rewrite, metadata write, verify) uses any other value.
C10_OnlyHexBindingUsed ==
    PastFormatStage => IsHexString(salt) /\ IsHexString(root_hash)

\* a step of the persist stage failed: the mount of the metadata store did
\* not mount, or the write of an artifact ended in IOError
PersistWrites == {"write_hash", "write_salt", "write_vcreate"}
PersistStepFailed ==
    \/ pc = "mount_store" /\ mnt_stack' = mnt_stack
    \/ pc \in PersistWrites /\ stdout' = Append(stdout, IOErrorLine)

\* C11: when the mount of the metadata store or the write of one of the
\* metadata artifacts fails, the run ends there, at the persist stage: it
\* goes on neither to the verify step nor to the success message.
C11_PersistFailureEndsRun ==
    [][PersistStepFailed => (pc' = "raised" /\ stage' = pc)]_vars

\* the text the boot partition held for this entry before the run
OriginalOf(e) == (CHOOSE o \in SampleEntries : o.name = e.name).text
PatchedOf(e) == new_content(OriginalOf(e), root_hash)

\* C12: at every point of a run, the rewrite of an entry included, every
\* entry file holds either its complete original text or its complete
\* patched text.
C12_EntryNeverPartial ==
    \A i \in 1..Len(entries) :
        entries[i].text \in {OriginalOf(entries[i]), PatchedOf(entries[i])}

\* C13: dm-verity-impl-1.py reports success only when at least one file of
\* the entries directory matched the selector Clear-*.
C13_NoEntryIsFatal ==
    (variant = IMPL1 /\ pc = "done") =>
        \E i \in 1..Len(entries) : fnmatch_Clear(entries[i].name)

\* the run got past the attach step
PastAttach == pc # "attach" /\ ~(pc = "raised" /\ stage = "attach")

\* C14: a run gets past the attach step only with exactly one top-level
\* device attached.
C14_ExactlyOneDevice == PastAttach => attached = 1

\* the text holds the salt or the root hash of the run
HoldsBinding(text) ==
    \/ salt # <<>> /\ Contains(text, salt)
    \/ root_hash # <<>> /\ Contains(text, root_hash)

\* C15: no line the script printed holds the salt or the root hash.
C15_BindingNotPrinted ==
    \A i \in 1..Len(stdout) : ~HoldsBinding(stdout[i].val)

\* C16: at most one partition is mounted on mnt at any time (a mount finds
\* mnt free, an unmount frees it), and none is mounted while the format
\* command runs.
C16_OneMountAtATime ==
    /\ Len(mnt_stack) <= 1
    /\ pc = "format" => mnt_stack = <<>>

\* the metadata store is mounted after the data partition was mounted,
\* written, unmounted and formatted
C16_Witness ==
    /\ mnt_stack = <<"store">>
    /\ format_runs = 1
    /\ data_fs["file1.sh"].exists

\* every roothash= parameter of the text carries the run's root hash
RootHashParam == <<"r","o","o","t","h","a","s","h","=">>
CarriesRunRootHash(text) ==
    \A p \in 1..Len(text) :
        IsAt(text, p, RootHashParam) =>
            IsAt(text, p, RootHashParam \o root_hash \o <<" ","s","y","s","t","e","m","d",".","v","e","r","i","t","y","_","r","o","o","t","_","d","a","t","a","=">>)
VerifyLines == {i \in 1..Len(stdout) :
                   stdout[i].msg = "Executing: veritysetup --verbose verify"}
\* the formatter's output is still the last output read
FormatOutputHeld == PastFormatStage /\ verify_result # "passed"
OneBinding ==
    /\ format_runs <= 1
    /\ pc = "done" => format_runs = 1
    /\ FormatOutputHeld => root_hash = root_hash_of(res)
    /\ \A i \in 1..Len(entries) :
           entries[i].writes > 0 => CarriesRunRootHash(entries[i].text)
    /\ store_fs["hash.txt"].text \in {<<>>, root_hash}
    /\ store_fs["vcreate.sh"].text \in {<<>>, vcreate_text(root_hash)}
    /\ \A i \in VerifyLines : stdout[i].val = root_hash

\* C17: the format command is invoked once in a run, and the root hash in
\* the boot entries, in hash.txt and vcreate.sh, and on the verify command
\* line is the value extracted from that invocation's output, which no
\* later step changes.
C17_OneFormatOneRootHash ==
    /\ []OneBinding
    /\ [][pc # "extract" => root_hash' = root_hash]_vars

\* a run that ended in success with the root hash written and verified
C17_Witness ==
    /\ pc = "done"
    /\ root_hash = TrueRootHash
    /\ \/ store_fs["vcreate.sh"] = File(vcreate_text(root_hash))
       \/ \E i \in 1..Len(entries) :
              entries[i].writes > 0 /\ Contains(entries[i].text, RootHashParam)

\* matches of root=.* quiet in the text: at most one on a line
AnchorCount(s) ==
    Cardinality({LineEnd(s, j) : j \in {i \in 1..Len(s) : AnchorAt(s, i) # 0}})

\* C18: an entry whose text does not hold exactly one rewrite anchor is
\* never written back.
C18_NoWriteWithoutAnchor ==
    \A i \in 1..Len(entries) :
        AnchorCount(OriginalOf(entries[i])) # 1 => entries[i].writes = 0

\* C19: every entry the patcher wrote holds the transform of the text that
\* same file held.
C19_WriteFromOwnContent ==
    \A i \in 1..Len(entries) :
        entries[i].writes > 0 => entries[i].text = PatchedOf(entries[i])

=============================================================================
